---- MODULE Spec2Model ----
(***************************************************************************)
(* State-machine model of the AI Rental Search Assistant:                  *)
(*   src/app.py               chat_page (one Streamlit script run)         *)
(*   src/utils/rag_utils.py   get_or_create_vector_store,                  *)
(*                            get_context_from_rag                         *)
(*   src/utils/search_utils.py perform_web_search                          *)
(*   src/models/*.py, src/config/config.py  resource construction          *)
(*                                                                         *)
(* A Python string is a sequence of fragments: user prompts and area names *)
(* are sequences of one-character strings (so strip, lower, title, replace *)
(* and substring search are computed character by character); text that    *)
(* comes from outside the program (model replies, retrieved chunks, the    *)
(* fixed wording of a prompt template) is an opaque fragment.              *)
(* Concatenation and f-string interpolation are \o.                        *)
(***************************************************************************)
EXTENDS Integers, Sequences, FiniteSets, TLC

(***************************************************************************)
(* Bounds of the model.                                                    *)
(***************************************************************************)
\* user turns kept in one conversation before the model stops adding more
MaxTurns == 2
\* evaluations of get_or_create_vector_store counted per process lifetime
MaxStoreCalls == 2
\* largest num_results given to perform_web_search when it is called directly
MaxNumResults == 3

(***************************************************************************)
(* Python values.                                                          *)
(***************************************************************************)
\* Python's None, for values that are otherwise strings
None == "None"
\* truth value of an optional string: None and "" are falsy
Truthy(x) == x # None /\ x # ""

(***************************************************************************)
(* Character-level string functions (str.lower, str.strip, str.title,      *)
(* str.replace, the `in` substring test).                                  *)
(***************************************************************************)
UpperLetters ==
    <<"A", "B", "C", "D", "E", "F", "G", "H", "I", "J", "K", "L", "M",
      "N", "O", "P", "Q", "R", "S", "T", "U", "V", "W", "X", "Y", "Z">>
LowerLetters ==
    <<"a", "b", "c", "d", "e", "f", "g", "h", "i", "j", "k", "l", "m",
      "n", "o", "p", "q", "r", "s", "t", "u", "v", "w", "x", "y", "z">>
Whitespace == {" ", "\t", "\n"}

IsUpper(c) == \E i \in 1..26 : UpperLetters[i] = c
IsLower(c) == \E i \in 1..26 : LowerLetters[i] = c
IsLetter(c) == IsUpper(c) \/ IsLower(c)
LowerChar(c) ==
    IF IsUpper(c) THEN LowerLetters[CHOOSE i \in 1..26 : UpperLetters[i] = c] ELSE c
UpperChar(c) ==
    IF IsLower(c) THEN UpperLetters[CHOOSE i \in 1..26 : LowerLetters[i] = c] ELSE c

\* str.lower()
Lower(s) == [i \in 1..Len(s) |-> LowerChar(s[i])]

\* str.strip(): drops leading and trailing whitespace
RECURSIVE LStrip(_)
LStrip(s) == IF s # <<>> /\ Head(s) \in Whitespace THEN LStrip(Tail(s)) ELSE s
RECURSIVE RStrip(_)
RStrip(s) ==
    IF s # <<>> /\ s[Len(s)] \in Whitespace THEN RStrip(SubSeq(s, 1, Len(s) - 1)) ELSE s
Strip(s) == RStrip(LStrip(s))

\* str.title(): a letter is upper-cased after a non-letter, lower-cased after a letter
Title(s) ==
    [i \in 1..Len(s) |->
        IF i = 1 \/ ~IsLetter(s[i - 1]) THEN UpperChar(s[i]) ELSE LowerChar(s[i])]

\* str.replace(old, new) for single characters
Replace(s, old, new) == [i \in 1..Len(s) |-> IF s[i] = old THEN new ELSE s[i]]

\* sub in s
Contains(sub, s) ==
    \E i \in 0..(Len(s) - Len(sub)) : SubSeq(s, i + 1, i + Len(sub)) = sub

\* sep.join(parts), parts a sequence of strings
RECURSIVE Join(_, _)
Join(parts, sep) ==
    IF parts = <<>> THEN <<>>
    ELSE IF Len(parts) = 1 THEN parts[1]
    ELSE parts[1] \o sep \o Join(Tail(parts), sep)

(***************************************************************************)
(* Literals of the source.                                                 *)
(***************************************************************************)
\* app.py:176 and :178, the ten area names in list order
Areas == <<
    <<"k", "o", "r", "a", "m", "a", "n", "g", "a", "l", "a">>,
    <<"h", "s", "r", " ", "l", "a", "y", "o", "u", "t">>,
    <<"i", "n", "d", "i", "r", "a", "n", "a", "g", "a", "r">>,
    <<"j", "a", "y", "a", "n", "a", "g", "a", "r">>,
    <<"w", "h", "i", "t", "e", "f", "i", "e", "l", "d">>,
    <<"m", "a", "r", "a", "t", "h", "a", "h", "a", "l", "l", "i">>,
    <<"e", "l", "e", "c", "t", "r", "o", "n", "i", "c", " ", "c", "i", "t", "y">>,
    <<"j", "p", " ", "n", "a", "g", "a", "r">>,
    <<"m", "a", "j", "e", "s", "t", "i", "c">>,
    <<"n", "a", "g", "a", "s", "a", "n", "d", "r", "a">> >>

ShortlistCommand == <<"/", "s", "h", "o", "r", "t", "l", "i", "s", "t">>

\* the "\n\n---\n\n" horizontal rule of app.py:198/200, rag_utils.py:77, search_utils.py:43
Rule == <<"\n\n---\n\n">>

GreetingText == <<"Hello! How can I help you find your next home in Bangalore today?">>
NoKnowledgeBase == <<"No local knowledge base found.">>
StoreUnavailable == <<"Vector store is not available.">>
RetrievalError == <<"Could not retrieve context due to an error.">>
NotConfigured == <<"Web search is not configured. Missing Google API Key or CSE ID.">>
NoSearchResults == <<"No relevant search results found from the web.">>
SearchError ==
    <<"Sorry, I couldn't perform a web search at the moment due to a configuration issue.">>
ShortlistSorry == <<"Sorry, I encountered an error while creating your shortlist: ">>
MainSorry == <<"Sorry, I encountered an error: ">>
ScoreSorry == <<"Could not calculate match score due to an error: ">>

(***************************************************************************)
(* Messages (langchain HumanMessage / AIMessage / SystemMessage).          *)
(***************************************************************************)
HumanMessage(text) == [role |-> "user", content |-> text]
AIMessage(text) == [role |-> "assistant", content |-> text]
SystemMessage(text) == [role |-> "system", content |-> text]
Greeting == AIMessage(GreetingText)

\* st.session_state without the key "messages"
NotInSession == <<>>

(***************************************************************************)
(* State.                                                                  *)
(***************************************************************************)
VARIABLES
    \* --- environment of the process ---
    GROQ_API_KEY,      \* config.py:9, None when the variable is not set
    GOOGLE_API_KEY,    \* config.py:12
    GOOGLE_CSE_ID,     \* config.py:13
    faiss_index,       \* what lies at FAISS_INDEX_PATH: "absent", "partial" (a save
                       \* that raised half-way) or the documents the saved index holds
    data_folder,       \* the folder "data": "missing", "empty" (no document found)
                       \* or the documents it holds
    \* --- the process ---
    resource_cache,    \* st.cache_resource entry of load_resources: <<>> before the
                       \* first evaluation, then <<vector_store, chat_model>>
    store_calls,       \* evaluations of get_or_create_vector_store in this process
    store_trace,       \* what the last evaluation of get_or_create_vector_store did
    \* --- one browser session ---
    messages,          \* st.session_state.messages (NotInSession before it is set)
    user_preferences,  \* st.session_state.user_preferences
    \* --- a direct call of perform_web_search ---
    search,            \* [called, query, num_results, out]
    \* --- what the last script run did ---
    run                \* op: what the run was; before: the number of messages when
                       \* it started; blocked: it returned at app.py:83;
                       \* escaped: an exception left chat_page; store_evals:
                       \* evaluations of get_or_create_vector_store; rag_calls,
                       \* web_calls: calls of get_context_from_rag and
                       \* perform_web_search; api_calls: calls of the search API;
                       \* index_ops: index builds, saves, loads done by retrieval;
                       \* llm_calls: the inputs of chat_model.invoke, in order;
                       \* llm_raised: for each of them, whether it raised

envVars == <<GROQ_API_KEY, GOOGLE_API_KEY, GOOGLE_CSE_ID, faiss_index, data_folder>>
procVars == <<resource_cache, store_calls, store_trace>>
sessionVars == <<messages, user_preferences>>
vars == <<envVars, procVars, sessionVars, search, run>>

\* document collections: "docsA" is what an artifact left by an earlier
\* deployment indexes, "docsB" is what the folder holds now
DocumentSets == {"docsA", "docsB"}
FolderStates == {"missing", "empty", "docsB"}
PreferenceTexts == {"", "I like quiet places with parks and good cafes."}
ResponseModes == {"Detailed", "Concise"}

(***************************************************************************)
(* src/utils/search_utils.py                                               *)
(***************************************************************************)
\* default of the num_results parameter
DefaultNumResults == 3

\* dict.get(key, default) on a record whose domain is the keys present
Get(dict, key, default) == IF key \in DOMAIN dict THEN dict[key] ELSE default

\* what the Google Custom Search call can do: raise, or return a response with
\* or without 'items'; an item may lack any of its fields
SearchItems == {
    [title |-> <<"2BHK in HSR">>, link |-> <<"https://example.org/1">>,
     snippet |-> <<"Semi-furnished,", "\n", "near park">>],
    [kind |-> <<"customsearch#result">>] }
ApiOutcomes ==
    {[raises |-> TRUE, res |-> [kind |-> <<"customsearch#search">>]],
     [raises |-> FALSE, res |-> [kind |-> <<"customsearch#search">>]]}
    \cup {[raises |-> FALSE, res |-> [kind |-> <<"customsearch#search">>, items |-> <<it>>]] :
            it \in SearchItems}

\* search_utils.py:36-41, one formatted result
FormatItem(item) ==
    <<"Title: ">> \o Get(item, "title", <<"No Title">>)
    \o <<"\nSnippet: ">> \o Replace(Get(item, "snippet", <<"No Snippet">>), "\n", " ")
    \o <<"\nLink: ">> \o Get(item, "link", <<"#">>)

\* a credential check that looks at the API key alone
credentials_missing_key_only == ~Truthy(GOOGLE_API_KEY)

\* search_utils.py:17, not config.GOOGLE_API_KEY or not config.GOOGLE_CSE_ID
credentials_missing == ~Truthy(GOOGLE_API_KEY) \/ ~Truthy(GOOGLE_CSE_ID)

\* perform_web_search(query, num_results) when the search API behaves as `api`.
\* ret: the returned string; raised: whether an exception leaves the function;
\* api_calls: calls made to the external search API (build + list().execute()).
perform_web_search(query, num_results, api) ==
    IF credentials_missing
    THEN [ret |-> NotConfigured, raised |-> FALSE, api_calls |-> 0]
    ELSE IF api.raises
    THEN [ret |-> SearchError, raised |-> FALSE, api_calls |-> 1]
    ELSE LET items == Get(api.res, "items", <<>>) IN
         IF items = <<>>
         THEN [ret |-> NoSearchResults, raised |-> FALSE, api_calls |-> 1]
         ELSE [ret |-> Join([i \in 1..Len(items) |-> FormatItem(items[i])], Rule),
               raised |-> FALSE, api_calls |-> 1]

(***************************************************************************)
(* src/utils/rag_utils.py                                                  *)
(***************************************************************************)
\* default of the k parameter of get_context_from_rag
DefaultK == 5

\* what the retriever can do on an index: raise, or return the page contents of
\* the relevant chunks (chunks of the documents the index was built from)
RetrieverOutcomes(index) ==
    {[raises |-> TRUE, docs |-> <<>>],
     [raises |-> FALSE, docs |-> << <<"chunk 1 of ", index>>, <<"chunk 2 of ", index>> >>]}

\* get_context_from_rag without the try/except around the retrieval
get_context_from_rag_uncaught(vector_store, query, k, retr) ==
    IF vector_store = None
    THEN [ret |-> StoreUnavailable, raised |-> FALSE, searches |-> 0, index_ops |-> 0]
    ELSE [ret |-> Join(retr.docs, Rule), raised |-> retr.raises, searches |-> 1,
          index_ops |-> 0]

\* get_context_from_rag(vector_store, query, k) when the retriever behaves as
\* `retr`. searches: similarity searches run; index_ops: builds, saves or loads
\* of the index done by the call.
get_context_from_rag(vector_store, query, k, retr) ==
    IF vector_store = None
    THEN [ret |-> StoreUnavailable, raised |-> FALSE, searches |-> 0, index_ops |-> 0]
    ELSE IF retr.raises
    THEN [ret |-> RetrievalError, raised |-> FALSE, searches |-> 1, index_ops |-> 0]
    ELSE [ret |-> Join(retr.docs, Rule), raised |-> FALSE, searches |-> 1, index_ops |-> 0]

\* what building and saving can do: succeed, raise while splitting or
\* embedding, or raise inside save_local, leaving nothing or a partial artifact
BuildOutcomes == {"ok", "embed_raises", "save_raises_clean", "save_raises_partial"}

\* a build that never persists the index
save_local_skipped(index_path, store) == index_path

\* rag_utils.py:59, vector_store.save_local(FAISS_INDEX_PATH) when it completes:
\* what lies at the path afterwards
save_local(index_path, store) == store

\* get_or_create_vector_store(folder_path, embeddings) on the file system state
\* (index_path, folder) when building behaves as `build`.
\*   ret: the returned store (None, or the documents it indexes)
\*   raised: an exception leaves the function
\*   index_path: what lies at FAISS_INDEX_PATH afterwards
\*   loaded / read_folder / built / wrote: FAISS.load_local was called, the
\*   document loaders ran, FAISS.from_documents completed, save_local was called
get_or_create_vector_store(index_path, folder, build) ==
    LET base == [ret |-> None, raised |-> FALSE, index_path |-> index_path,
                 loaded |-> FALSE, read_folder |-> FALSE, built |-> FALSE,
                 wrote |-> FALSE]
    IN
    IF index_path # "absent"
    THEN \* os.path.exists(FAISS_INDEX_PATH): load, whatever the folder holds
         IF index_path = "partial"
         THEN [base EXCEPT !.raised = TRUE, !.loaded = TRUE]
         ELSE [base EXCEPT !.ret = index_path, !.loaded = TRUE]
    ELSE IF folder = "missing"
    THEN base
    ELSE IF folder = "empty"
    THEN [base EXCEPT !.read_folder = TRUE]
    ELSE IF build = "embed_raises"
    THEN [base EXCEPT !.read_folder = TRUE, !.raised = TRUE]
    ELSE IF build = "save_raises_clean"
    THEN [base EXCEPT !.read_folder = TRUE, !.built = TRUE, !.wrote = TRUE,
                      !.raised = TRUE]
    ELSE IF build = "save_raises_partial"
    THEN [base EXCEPT !.read_folder = TRUE, !.built = TRUE, !.wrote = TRUE,
                      !.raised = TRUE, !.index_path = "partial"]
    ELSE [base EXCEPT !.read_folder = TRUE, !.built = TRUE, !.wrote = TRUE,
                      !.ret = folder, !.index_path = save_local(index_path, folder)]

(***************************************************************************)
(* src/models                                                              *)
(***************************************************************************)
\* get_chatgroq_model(): raises without an API key
get_chatgroq_model ==
    IF ~Truthy(GROQ_API_KEY)
    THEN [ret |-> None, raised |-> TRUE]
    ELSE [ret |-> "ChatGroq", raised |-> FALSE]

\* get_huggingface_embeddings(): raises when the model cannot be loaded
get_huggingface_embeddings(model_loads) ==
    IF model_loads
    THEN [ret |-> "all-MiniLM-L6-v2", raised |-> FALSE]
    ELSE [ret |-> None, raised |-> TRUE]

(***************************************************************************)
(* src/app.py: pure parts of chat_page                                     *)
(***************************************************************************)
\* format_chat_history(messages)
format_chat_history(msgs) ==
    Join([i \in 1..Len(msgs) |->
            <<IF msgs[i].role = "user" THEN "User" ELSE "Assistant", ": ">>
            \o msgs[i].content],
         <<"\n">>)

\* is_shortlist without the strip()
is_shortlist_unstripped(prompt) == Lower(prompt) = ShortlistCommand

\* app.py:108, prompt.strip().lower() == '/shortlist'
is_shortlist(prompt) == Lower(Strip(prompt)) = ShortlistCommand

\* app.py:176, any(area.lower() in prompt.lower() for area in [...])
any_area(prompt) == \E i \in 1..Len(Areas) : Contains(Lower(Areas[i]), Lower(prompt))

\* app.py:178, next((area for area in [...] if area.lower() in prompt.lower()), None)
\* (None, which is falsy like the empty string, is the empty sequence here)
mentioned_area(prompt) ==
    IF any_area(prompt)
    THEN Areas[CHOOSE i \in 1..Len(Areas) :
                 /\ Contains(Lower(Areas[i]), Lower(prompt))
                 /\ \A j \in 1..(i - 1) : ~Contains(Lower(Areas[j]), Lower(prompt))]
    ELSE <<>>

\* score_condition that forgets the preferences
score_condition_area_only(preferences, any) == any

\* app.py:176, the condition of the match-score branch
score_condition(preferences, any) == Truthy(preferences) /\ any

\* app.py:184, the path of the area's description file
area_file(area) == <<"d", "a", "t", "a", "/">> \o Replace(area, " ", "_") \o <<".", "t", "x", "t">>

\* the texts a user types into the chat input
Prompts == {
    <<" ", "/", "S", "h", "o", "r", "t", "L", "i", "s", "t", "\n">>,
    <<"/", "s", "h", "o", "r", "t", "l", "i", "s", "t", " ", "2">>,
    <<"M", "a", "j", "e", "s", "t", "i", "c", " ", "o", "r", " ", "H", "S", "R", " ", "L", "a", "y", "o", "u", "t", "?">> }

\* is_shortlist, score_condition's area test and mentioned_area of each prompt,
\* evaluated once
PromptFacts ==
    [p \in Prompts |->
        [shortlist |-> is_shortlist(p), any_area |-> any_area(p),
         area |-> mentioned_area(p)]]

\* app.py:113-123, the summary prompt
summary_prompt(history) ==
    <<"Review the following conversation history ... Conversation History:\n---\n">>
    \o history \o <<"\n---\n">>

\* app.py:145-164, the system prompt
system_prompt(mode, rag_context, search_context) ==
    <<"You are an expert AI real estate assistant ... Response Mode: ", mode,
      " ... Context from my Knowledge Base:\n---\n">>
    \o rag_context
    \o <<"\n---\n ... Context from a Live Web Search:\n---\n">>
    \o search_context
    \o <<"\n---\n Based on all the above information, answer the user's query. ...">>

\* app.py:187-195, the score prompt
score_prompt(preferences, area, description) ==
    <<"... provide a match score. User Preferences: \"", preferences,
      "\" Neighborhood Description for ">> \o Title(area) \o <<": \"">> \o description
    \o <<"\" ... Format your response as: **Match Score for ">> \o Title(area)
    \o <<": [Score]/10** ...">>

\* what the hosted model answers (opaque text, one per kind of request)
ShortlistText == <<"(shortlist written by the model)">>
ReplyText == <<"(reply written by the model)">>
ScoreText == <<"(match score written by the model)">>
\* str(e) of the exceptions the turn can meet
InvokeError == <<"APIConnectionError('Connection error.')">>
FileError(path) == <<"[Errno 2] No such file or directory: '">> \o path \o <<"'">>
DescriptionText(area) == <<"(description of ">> \o area \o <<")">>

\* what one script run leaves behind for inspection
NoRun ==
    [op |-> "none", before |-> 0, blocked |-> FALSE, escaped |-> FALSE, store_evals |-> 0,
     rag_calls |-> 0, web_calls |-> 0, api_calls |-> 0, index_ops |-> 0,
     llm_calls |-> <<>>, llm_raised |-> <<>>]

\* shortlist_turn without the try/except around chat_model.invoke
shortlist_turn_uncaught(msgs, invoke_raises) ==
    LET request == <<HumanMessage(summary_prompt(format_chat_history(msgs)))>>
        called == [NoRun EXCEPT !.op = "shortlist", !.llm_calls = <<request>>,
                                !.llm_raised = <<invoke_raises>>]
    IN IF invoke_raises
       THEN [messages |-> msgs, run |-> [called EXCEPT !.escaped = TRUE]]
       ELSE [messages |-> Append(msgs, AIMessage(ShortlistText)), run |-> called]

\* app.py:108-132, the shortlist branch; msgs already ends with the user's
\* message; invoke_raises: chat_model.invoke raises
shortlist_turn(msgs, invoke_raises) ==
    LET chat_history_str == format_chat_history(msgs)
        request == <<HumanMessage(summary_prompt(chat_history_str))>>
        response_content ==
            IF invoke_raises THEN ShortlistSorry \o InvokeError ELSE ShortlistText
    IN [messages |-> Append(msgs, AIMessage(response_content)),
        run |-> [NoRun EXCEPT !.op = "shortlist", !.llm_calls = <<request>>,
                              !.llm_raised = <<invoke_raises>>]]

\* an except branch that assigns the note instead of appending it
score_failed_replacing(response_content, e) == ScoreSorry \o e

\* app.py:199-200, the except branch of the match-score block
score_failed(response_content, e) == response_content \o Rule \o ScoreSorry \o e

\* app.py:180-200, the match-score block appended to the main reply
\* file_exists: the area's description file can be opened
\* score_raises: the second chat_model.invoke raises
match_score(response_content, preferences, area, file_exists, score_raises) ==
    LET path == area_file(area)
        request == <<HumanMessage(score_prompt(preferences, area, DescriptionText(area)))>>
    IN IF ~file_exists
       THEN [content |-> score_failed(response_content, FileError(path)),
             llm_calls |-> <<>>, llm_raised |-> <<>>]
       ELSE IF score_raises
       THEN [content |-> score_failed(response_content, InvokeError),
             llm_calls |-> <<request>>, llm_raised |-> <<TRUE>>]
       ELSE [content |-> response_content \o Rule \o ScoreText,
             llm_calls |-> <<request>>, llm_raised |-> <<FALSE>>]

\* app.py:135-206, the standard branch; msgs already ends with the user's message.
\* e: how the outside world behaves during the turn
\*    [retr, api, main_raises, file_exists, score_raises]
standard_turn(msgs, prompt, vector_store, preferences, mode, e) ==
    LET rag == IF vector_store # None
               THEN get_context_from_rag(vector_store, prompt, DefaultK, e.retr)
               ELSE [ret |-> NoKnowledgeBase, raised |-> FALSE, searches |-> 0,
                     index_ops |-> 0]
        rag_calls == IF vector_store # None THEN 1 ELSE 0
        web == perform_web_search(<<"rental properties Bangalore ">> \o prompt,
                                  DefaultNumResults, e.api)
        formatted_messages == <<SystemMessage(system_prompt(mode, rag.ret, web.ret))>> \o msgs
        counted == [NoRun EXCEPT !.op = "standard", !.rag_calls = rag_calls,
                                 !.index_ops = rag.index_ops]
    IN
    IF rag.raised
    THEN \* the exception leaves chat_page: nothing more runs
         [messages |-> msgs, run |-> [counted EXCEPT !.escaped = TRUE]]
    ELSE IF web.raised
    THEN [messages |-> msgs,
          run |-> [counted EXCEPT !.escaped = TRUE, !.web_calls = 1,
                                  !.api_calls = web.api_calls]]
    ELSE
    LET searched == [counted EXCEPT !.web_calls = 1, !.api_calls = web.api_calls] IN
    IF e.main_raises
    THEN [messages |-> Append(msgs, AIMessage(MainSorry \o InvokeError)),
          run |-> [searched EXCEPT !.llm_calls = <<formatted_messages>>,
                                   !.llm_raised = <<TRUE>>]]
    ELSE IF score_condition(preferences, PromptFacts[prompt].any_area)
            /\ PromptFacts[prompt].area # <<>>
    THEN LET score == match_score(ReplyText, preferences, PromptFacts[prompt].area,
                                  e.file_exists, e.score_raises)
         IN [messages |-> Append(msgs, AIMessage(score.content)),
             run |-> [searched EXCEPT
                        !.llm_calls = <<formatted_messages>> \o score.llm_calls,
                        !.llm_raised = <<FALSE>> \o score.llm_raised]]
    ELSE [messages |-> Append(msgs, AIMessage(ReplyText)),
          run |-> [searched EXCEPT !.llm_calls = <<formatted_messages>>,
                                   !.llm_raised = <<FALSE>>]]

(***************************************************************************)
(* src/app.py: resources                                                   *)
(***************************************************************************)
\* app.py:67-77, the body of load_resources on a cache miss.
\*   ret: the pair returned; index_path: FAISS_INDEX_PATH afterwards;
\*   evals: the evaluations of get_or_create_vector_store made (none or one),
\*   each with the file system it found
load_resources(model_loads, build) ==
    LET embeddings == get_huggingface_embeddings(model_loads)
        store == get_or_create_vector_store(faiss_index, data_folder, build)
        eval == [pre |-> faiss_index, folder |-> data_folder, out |-> store]
        chat == get_chatgroq_model
    IN IF embeddings.raised
       THEN [ret |-> <<None, None>>, index_path |-> faiss_index, evals |-> <<>>]
       ELSE IF store.raised
       THEN [ret |-> <<None, None>>, index_path |-> store.index_path, evals |-> <<eval>>]
       ELSE IF chat.raised
       THEN [ret |-> <<None, None>>, index_path |-> store.index_path, evals |-> <<eval>>]
       ELSE [ret |-> <<store.ret, chat.ret>>, index_path |-> store.index_path,
             evals |-> <<eval>>]

\* a cache that keeps no entry for a failed load (the pair of Nones)
cache_resource_successes_only(value) == IF value = <<None, None>> THEN <<>> ELSE value

\* app.py:66, @st.cache_resource: the entry kept for a value the function returned
cache_resource(value) == value

\* app.py:79, vector_store, chat_model = load_resources() through the cache
cached_load_resources(model_loads, build) ==
    IF resource_cache # <<>>
    THEN [ret |-> resource_cache, cache |-> resource_cache, index_path |-> faiss_index,
          evals |-> <<>>]
    ELSE LET r == load_resources(model_loads, build)
         IN [ret |-> r.ret, cache |-> cache_resource(r.ret), index_path |-> r.index_path,
             evals |-> r.evals]

\* the last evaluation of get_or_create_vector_store made so far
Remember(trace, evals) == IF evals = <<>> THEN trace ELSE evals

(***************************************************************************)
(* src/app.py: one script run of chat_page                                 *)
(***************************************************************************)
\* st.chat_input returned nothing
NoPrompt == <<>>

\* how the outside world can behave during a turn (only the calls the turn
\* makes are given a choice)
TurnWorlds(prompt, vector_store, preferences) ==
    LET quiet_retr == {[raises |-> FALSE, docs |-> <<>>]}
        quiet_api == {[raises |-> FALSE, res |-> [kind |-> <<"customsearch#search">>]]}
        standard == ~PromptFacts[prompt].shortlist
        scored == standard /\ score_condition(preferences, PromptFacts[prompt].any_area)
        files == IF scored /\ data_folder \in DocumentSets THEN BOOLEAN ELSE {FALSE}
    IN
    { e \in [retr : IF standard /\ vector_store # None
                    THEN RetrieverOutcomes(vector_store) ELSE quiet_retr,
             api : IF standard /\ Truthy(GOOGLE_API_KEY) /\ Truthy(GOOGLE_CSE_ID)
                   THEN ApiOutcomes ELSE quiet_api,
             main_raises : BOOLEAN,
             file_exists : files,
             score_raises : IF scored THEN BOOLEAN ELSE {FALSE}] :
        /\ e.main_raises => ~e.file_exists /\ ~e.score_raises
        /\ ~e.file_exists => ~e.score_raises }

\* handle_input that never records the user's message (no append at app.py:103)
handle_input_unrecorded(msgs, prompt, vector_store, preferences, mode, e) ==
    IF PromptFacts[prompt].shortlist
    THEN shortlist_turn(msgs, e.main_raises)
    ELSE standard_turn(msgs, prompt, vector_store, preferences, mode, e)

\* app.py:101-206, the handling of a submitted prompt
handle_input(msgs, prompt, vector_store, preferences, mode, e) ==
    LET appended == Append(msgs, HumanMessage(prompt)) IN
    IF PromptFacts[prompt].shortlist
    THEN shortlist_turn(appended, e.main_raises)
    ELSE standard_turn(appended, prompt, vector_store, preferences, mode, e)

\* clear_history that appends the greeting instead of replacing the list
clear_history_appending(msgs) == Append(msgs, Greeting)

\* app.py:56-60, the click on "Clear Chat History"
clear_history(msgs) == <<Greeting>>

\* app.py:27-206, one run of the script: the sidebar widgets hold `preferences`
\* and `mode` (the local response_mode), the clear button was clicked or not, the chat input returned
\* `prompt` or nothing. A click on the clear button resets the messages and
\* st.rerun() starts the script again with no button and no prompt.
chat_page(op, preferences, mode, clear, prompt) ==
    \E model_loads \in IF resource_cache = <<>> THEN BOOLEAN ELSE {TRUE},
       build \in IF resource_cache = <<>> THEN BuildOutcomes ELSE {"ok"} :
      LET after_sidebar == IF clear THEN clear_history(messages) ELSE messages
          res == cached_load_resources(model_loads, build)
          vector_store == res.ret[1]
          chat_model == res.ret[2]
          ran == [NoRun EXCEPT !.op = op, !.store_evals = Len(res.evals),
                               !.before = Len(messages)]
      IN
      /\ user_preferences' = preferences
      /\ resource_cache' = res.cache
      /\ faiss_index' = res.index_path
      /\ store_calls' = IF store_calls + Len(res.evals) > MaxStoreCalls
                        THEN MaxStoreCalls ELSE store_calls + Len(res.evals)
      /\ store_trace' = Remember(store_trace, res.evals)
      /\ UNCHANGED <<GROQ_API_KEY, GOOGLE_API_KEY, GOOGLE_CSE_ID, data_folder, search>>
      /\ IF chat_model = None
         THEN \* app.py:81-83
              /\ messages' = after_sidebar
              /\ run' = [ran EXCEPT !.blocked = TRUE]
         ELSE LET msgs == IF after_sidebar = NotInSession THEN <<Greeting>>
                          ELSE after_sidebar
              IN IF prompt = NoPrompt
                 THEN /\ messages' = msgs
                      /\ run' = ran
                 ELSE \E e \in TurnWorlds(prompt, vector_store, preferences) :
                        LET t == handle_input(msgs, prompt, vector_store, preferences,
                                              mode, e)
                        IN /\ messages' = t.messages
                           /\ run' = [t.run EXCEPT !.store_evals = Len(res.evals),
                                                   !.before = Len(messages)]

\* the page has been drawn in this session, so its widgets can be used
PageShown == run.op \notin {"none", "new_session", "restart"}
\* the chat input was drawn by the last run (app.py:101 is reached)
InputShown == PageShown /\ ~run.blocked /\ ~run.escaped

(***************************************************************************)
(* Actions.                                                                *)
(***************************************************************************)
\* the browser opens or reloads the page: a run with the widgets as they are
OpenPage == chat_page("open", user_preferences, "Detailed", FALSE, NoPrompt)

\* the user edits the preferences text area
ChangePreferences ==
    /\ PageShown
    /\ \E p \in PreferenceTexts \ {user_preferences} :
         chat_page("preferences", p, "Detailed", FALSE, NoPrompt)

\* the user clicks "Clear Chat History"
ClearChat ==
    /\ PageShown
    /\ chat_page("clear", user_preferences, "Detailed", TRUE, NoPrompt)

\* the user submits a prompt, with the response-mode radio on either value
SubmitPrompt ==
    /\ InputShown
    /\ Len(messages) < 2 * MaxTurns + 1
    /\ \E p \in Prompts, m \in ResponseModes :
         chat_page("turn", user_preferences, m, FALSE, p)

\* another conversation starts in the same process: fresh session state
NewSession ==
    /\ PageShown
    /\ messages' = NotInSession
    /\ user_preferences' = ""
    /\ run' = [NoRun EXCEPT !.op = "new_session"]
    /\ UNCHANGED <<envVars, procVars, search>>

\* the process ends and a new one starts: the cache and the sessions are gone,
\* the file system stays
Restart ==
    /\ resource_cache # <<>>
    /\ resource_cache' = <<>>
    /\ store_calls' = 0
    /\ messages' = NotInSession
    /\ user_preferences' = ""
    /\ run' = [NoRun EXCEPT !.op = "restart"]
    /\ UNCHANGED <<envVars, store_trace, search>>

NoSearch ==
    [called |-> FALSE, query |-> <<>>, num_results |-> 0,
     out |-> [ret |-> <<>>, raised |-> FALSE, api_calls |-> 0]]

\* the state of a fresh process and a session that has not run yet
Fresh ==
    /\ resource_cache = <<>>
    /\ store_calls = 0
    /\ store_trace = <<>>
    /\ messages = NotInSession
    /\ user_preferences = ""
    /\ search = NoSearch
    /\ run = NoRun

Init ==
    /\ GROQ_API_KEY \in {None, "gsk_live"}
    /\ \E keys \in {<<"AIza", "cx01">>, <<None, "cx01">>} :
         GOOGLE_API_KEY = keys[1] /\ GOOGLE_CSE_ID = keys[2]
    /\ faiss_index \in {"absent", "docsA"}
    /\ data_folder \in FolderStates
    /\ Fresh

Next ==
    \/ OpenPage
    \/ ChangePreferences
    \/ ClearChat
    \/ SubmitPrompt
    \/ NewSession
    \/ Restart

Spec == Init /\ [][Next]_vars

(***************************************************************************)
(* perform_web_search called directly, on every configuration of the two   *)
(* search credentials.                                                     *)
(***************************************************************************)
CredentialValues == {None, "", "set"}
SearchQueries == {<<"rental properties Bangalore ">> \o p : p \in Prompts}

Search ==
    /\ \E q \in SearchQueries, n \in 1..MaxNumResults, api \in ApiOutcomes :
         search' = [called |-> TRUE, query |-> q, num_results |-> n,
                    out |-> perform_web_search(q, n, api)]
    /\ UNCHANGED <<envVars, procVars, sessionVars, run>>

InitSearch ==
    /\ GROQ_API_KEY = "gsk_live"
    /\ GOOGLE_API_KEY \in CredentialValues
    /\ GOOGLE_CSE_ID \in CredentialValues
    /\ faiss_index = "absent"
    /\ data_folder = "missing"
    /\ Fresh

SpecSearch == InitSearch /\ [][Search]_vars

(***************************************************************************)
(* Properties.                                                             *)
(***************************************************************************)
\* the last run handled a submitted prompt
TurnRun == run.op \in {"shortlist", "standard"}
\* the user's text and the assistant's reply of the turn the last run handled
TurnPrompt == messages[run.before + 1].content
TurnReply == messages[Len(messages)].content

\* C1: every failure of chat_model.invoke (main reply, shortlist summary, match
\* score) is caught and turned into text of the assistant's message: a step that
\* handles a prompt lets no exception escape, keeps the earlier messages, and
\* appends exactly the user's message followed by one assistant message, which
\* carries the apology when a call raised.
C1_FailuresBecomeAssistantTurn ==
    [][run'.op \in {"shortlist", "standard"} =>
         /\ ~run'.escaped
         /\ Len(messages') = Len(messages) + 2
         /\ SubSeq(messages', 1, Len(messages)) = messages
         /\ messages'[Len(messages) + 1].role = "user"
         /\ messages'[Len(messages) + 2].role = "assistant"
         /\ (run'.op = "shortlist" /\ run'.llm_raised = <<TRUE>>
               => messages'[Len(messages) + 2].content = ShortlistSorry \o InvokeError)
         /\ (run'.op = "standard" /\ run'.llm_raised = <<TRUE>>
               => messages'[Len(messages) + 2].content = MainSorry \o InvokeError)
         /\ (run'.op = "standard" /\ run'.llm_raised = <<FALSE, TRUE>>
               => messages'[Len(messages) + 2].content
                    = ReplyText \o Rule \o ScoreSorry \o InvokeError)
      ]_vars

\* C1 witness: the second turn of a conversation is a shortlist request whose
\* model call raised, and the apology is the assistant's message
C1_Witness ==
    /\ run.op = "shortlist"
    /\ run.llm_raised = <<TRUE>>
    /\ Len(messages) = 5
    /\ messages[5] = AIMessage(ShortlistSorry \o InvokeError)

(***************************************************************************)
(* C2                                                                      *)
(***************************************************************************)
\* the text names one of the ten areas, case-insensitively
MentionsArea(text) == \E i \in 1..Len(Areas) : Contains(Lower(Areas[i]), Lower(text))
\* whether each prompt names an area, evaluated once
NamesArea == [p \in Prompts |-> MentionsArea(p)]

\* the reply ends with a horizontal rule followed by the score or by the
\* score-failure note
IsPrefix(pre, text) == Len(pre) <= Len(text) /\ SubSeq(text, 1, Len(pre)) = pre
HasScoreBlock(text) ==
    \E i \in 1..Len(text) :
        /\ <<text[i]>> = Rule
        /\ LET rest == SubSeq(text, i + 1, Len(text))
           IN rest = ScoreText \/ IsPrefix(ScoreSorry, rest)

\* C2 as claimed: on every standard query the reply has a score block exactly
\* when the preferences are non-empty and the prompt names an area.
C2_ScoreIffBothConditions ==
    run.op = "standard" =>
        (HasScoreBlock(TurnReply) <=> (user_preferences # "" /\ NamesArea[TurnPrompt]))

\* C2 amended: on every standard query the reply has a score block exactly when
\* the preferences are non-empty, the prompt names an area and the main model
\* call returned; when the main call raised the reply is the apology alone.
C2_ScoreIffConditionsAndMainReply ==
    run.op = "standard" =>
        /\ HasScoreBlock(TurnReply)
             <=> (user_preferences # "" /\ NamesArea[TurnPrompt] /\ ~run.llm_raised[1])
        /\ run.llm_raised[1] => TurnReply = MainSorry \o InvokeError

\* C2 witness: a prompt naming an area, with preferences set, got a score
C2_Witness ==
    /\ run.op = "standard"
    /\ user_preferences # ""
    /\ NamesArea[TurnPrompt]
    /\ TurnReply = ReplyText \o Rule \o ScoreText

(***************************************************************************)
(* C3                                                                      *)
(***************************************************************************)
\* the last evaluation of get_or_create_vector_store, made by this process,
\* found no artifact and produced no index: index construction failed
ConstructionFailed ==
    /\ resource_cache # <<>>
    /\ store_calls = 1
    /\ store_trace[1].pre = "absent"
    /\ store_trace[1].out.ret = None

\* the system prompt of the main model call of the last run
SystemPromptOfRun == run.llm_calls[1][1].content

\* C3 as claimed: when index construction fails (no documents found, or the
\* build raises) and the language model can be initialized, the session runs
\* without a knowledge base: the chat model is there, the store is None, and a
\* standard query is answered from the placeholder context.
C3_BuildFailureDegrades ==
    (ConstructionFailed /\ Truthy(GROQ_API_KEY)) =>
        /\ resource_cache = <<None, "ChatGroq">>
        /\ run.op = "standard" => Contains(NoKnowledgeBase, SystemPromptOfRun)

(***************************************************************************)
(* C4                                                                      *)
(***************************************************************************)
\* whether each prompt, trimmed and lower-cased, is the command; evaluated once
IsCommand == [p \in Prompts |-> Lower(Strip(p)) = ShortlistCommand]

\* C4: a turn takes the shortlist branch exactly when the trimmed, lower-cased
\* prompt equals '/shortlist'; on that branch get_context_from_rag and
\* perform_web_search are not called, the model is invoked exactly once, on a
\* transcript that holds every message of the conversation (the command
\* included) in order, and the model's answer is the assistant's message.
C4_ShortlistBranch ==
    TurnRun =>
        /\ run.op = "shortlist" <=> IsCommand[TurnPrompt]
        /\ run.op = "shortlist" =>
             LET conversation == SubSeq(messages, 1, Len(messages) - 1)
                 request == run.llm_calls[1]
             IN /\ run.rag_calls = 0 /\ run.web_calls = 0 /\ run.api_calls = 0
                /\ Len(run.llm_calls) = 1
                /\ Len(request) = 1
                /\ request[1].role = "user"
                /\ Contains(format_chat_history(conversation), request[1].content)
                /\ \A i \in 1..Len(conversation) :
                     Contains(conversation[i].content, request[1].content)
                /\ messages[Len(messages)].role = "assistant"
                /\ run.llm_raised = <<FALSE>> => TurnReply = ShortlistText

\* C4 witness: " /ShortList\n" typed after an earlier exchange is answered with
\* the model's shortlist
C4_Witness ==
    /\ run.op = "shortlist"
    /\ Len(messages) = 5
    /\ TurnPrompt # ShortlistCommand
    /\ TurnReply = ShortlistText

(***************************************************************************)
(* C5                                                                      *)
(***************************************************************************)
\* C5: after a click on "Clear Chat History" the conversation is exactly the
\* seeded greeting, whatever it held before.
C5_ClearReplaces == run.op = "clear" => messages = <<Greeting>>

\* C5 witness: a conversation of two full turns was cleared
C5_Witness == run.op = "clear" /\ run.before = 5 /\ messages = <<Greeting>>

(***************************************************************************)
(* C6                                                                      *)
(***************************************************************************)
\* C6: get_or_create_vector_store is evaluated at most once in a process, also
\* when that evaluation failed; a run that handles a prompt evaluates it never,
\* does no index build, save or load and leaves the artifact alone; and the
\* cached pair changes only when the process is replaced.
C6_LoadOncePerProcess ==
    /\ [](store_calls <= 1)
    /\ [][/\ run'.op \in {"shortlist", "standard"} =>
               /\ run'.store_evals = 0
               /\ run'.index_ops = 0
               /\ faiss_index' = faiss_index
               /\ resource_cache' = resource_cache
          /\ (resource_cache # <<>> /\ run'.op # "restart") =>
               /\ resource_cache' = resource_cache
               /\ store_calls' = store_calls
               /\ faiss_index' = faiss_index
         ]_vars

\* C6 witness: the one evaluation raised, and a later run of the same process
\* (a change of the preferences) did not evaluate again
C6_Witness ==
    /\ store_calls = 1
    /\ store_trace[1].out.raised
    /\ resource_cache = <<None, None>>
    /\ run.op = "preferences"
    /\ run.store_evals = 0

(***************************************************************************)
(* C7                                                                      *)
(***************************************************************************)
\* the strings get_context_from_rag can hand to the turn for a store
RagContexts(vector_store) ==
    {get_context_from_rag(vector_store, <<>>, DefaultK, r).ret :
        r \in RetrieverOutcomes(vector_store)}
\* the strings perform_web_search can hand to the turn
WebContexts == {perform_web_search(<<>>, DefaultNumResults, a).ret : a \in ApiOutcomes}

\* C7: a standard turn is never aborted by retrieval or search: for every
\* behaviour of the retriever and of the search API both functions return
\* without raising; the run lets nothing escape, calls the model for the main
\* reply exactly once, and that call's system prompt holds the knowledge-base
\* context (the placeholder when there is no index, else what retrieval
\* returned) and the web-search context ("not configured" without credentials).
C7_DegradedContextsReachModel ==
    /\ \A vs \in {None} \cup DocumentSets, r \in RetrieverOutcomes("docsA") :
         ~get_context_from_rag(vs, <<>>, DefaultK, r).raised
    /\ \A a \in ApiOutcomes : ~perform_web_search(<<>>, DefaultNumResults, a).raised
    /\ run.op = "standard" =>
         /\ ~run.escaped
         /\ run.web_calls = 1
         /\ Len(run.llm_calls) >= 1
         /\ Cardinality({i \in 1..Len(run.llm_calls) :
                            run.llm_calls[i][1].role = "system"}) = 1
         /\ run.llm_calls[1][1].role = "system"
         /\ SubSeq(run.llm_calls[1], 2, Len(run.llm_calls[1]))
              = SubSeq(messages, 1, Len(messages) - 1)
         /\ IF resource_cache[1] = None
            THEN run.rag_calls = 0 /\ Contains(NoKnowledgeBase, SystemPromptOfRun)
            ELSE /\ run.rag_calls = 1
                 /\ \E c \in RagContexts(resource_cache[1]) : Contains(c, SystemPromptOfRun)
         /\ IF ~Truthy(GOOGLE_API_KEY) \/ ~Truthy(GOOGLE_CSE_ID)
            THEN run.api_calls = 0 /\ Contains(NotConfigured, SystemPromptOfRun)
            ELSE \E c \in WebContexts : Contains(c, SystemPromptOfRun)

\* C7 witness: the similarity search raised and the search API raised, and the
\* model still answered from the two fallback strings
C7_Witness ==
    /\ run.op = "standard"
    /\ resource_cache[1] # None
    /\ Contains(RetrievalError, SystemPromptOfRun)
    /\ Contains(SearchError, SystemPromptOfRun)
    /\ TurnReply = ReplyText

(***************************************************************************)
(* C8                                                                      *)
(***************************************************************************)
\* the last run took the match-score branch and the score could not be had:
\* no second model call was made (the description file could not be opened)
\* or the second call raised
ScoreBranchFailed ==
    /\ run.op = "standard"
    /\ ~run.llm_raised[1]
    /\ user_preferences # ""
    /\ NamesArea[TurnPrompt]
    /\ (Len(run.llm_raised) = 1 \/ run.llm_raised[2])

\* C8: when the match-score branch fails, the assistant's message is the main
\* reply unchanged, then the horizontal rule, then a failure note that names
\* the error, and no score.
C8_MainReplyKept ==
    ScoreBranchFailed =>
        /\ IsPrefix(ReplyText \o Rule \o ScoreSorry, TurnReply)
        /\ Len(TurnReply) > Len(ReplyText \o Rule \o ScoreSorry)
        /\ ~Contains(ScoreText, TurnReply)

\* C8 witness: the description file of "hsr layout" was missing
C8_Witness ==
    /\ ScoreBranchFailed
    /\ Len(run.llm_raised) = 1
    /\ TurnReply = ReplyText \o Rule \o ScoreSorry
                   \o FileError(<<"d", "a", "t", "a", "/", "h", "s", "r", "_", "l", "a",
                                  "y", "o", "u", "t", ".", "t", "x", "t">>)

(***************************************************************************)
(* C9 (checked under SpecSearch)                                           *)
(***************************************************************************)
\* C9: with either credential missing (unset or empty), perform_web_search
\* returns the "not configured" message, does not raise and makes no call to
\* the search API, whatever the query and the result count.
C9_NotConfigured ==
    (search.called /\ (GOOGLE_API_KEY \in {None, ""} \/ GOOGLE_CSE_ID \in {None, ""})) =>
        /\ search.out.ret = NotConfigured
        /\ ~search.out.raised
        /\ search.out.api_calls = 0

\* C9 witness: the API key is set, the engine identifier is empty
C9_Witness ==
    /\ search.called
    /\ GOOGLE_API_KEY = "set"
    /\ GOOGLE_CSE_ID = ""
    /\ search.num_results = MaxNumResults
    /\ search.out.ret = NotConfigured

(***************************************************************************)
(* C10                                                                     *)
(***************************************************************************)
\* C10 as claimed, for the last evaluation of get_or_create_vector_store:
\* an existing artifact is loaded, with no folder read and no write; with none
\* and documents found the index is built and persisted; with the folder
\* missing or empty no index is returned and nothing is persisted.
C10_Lifecycle ==
    store_trace # <<>> =>
        LET t == store_trace[1] IN
        /\ t.pre # "absent" =>
             /\ t.out.loaded /\ t.out.ret = t.pre
             /\ ~t.out.read_folder /\ ~t.out.wrote /\ t.out.index_path = t.pre
        /\ (t.pre = "absent" /\ t.folder \in DocumentSets) =>
             /\ t.out.built /\ t.out.ret = t.folder /\ t.out.index_path = t.folder
        /\ (t.pre = "absent" /\ t.folder \in {"missing", "empty"}) =>
             /\ t.out.ret = None /\ ~t.out.raised
             /\ ~t.out.wrote /\ t.out.index_path = "absent"

\* C10 amended: whatever lies at the artifact path is only loaded (no folder
\* read, no write, the path untouched), and a complete artifact comes back as
\* the index it holds, whatever the folder holds now; with no artifact and
\* documents found, a build and save that complete return the index of the
\* folder and leave it at the path, while a build or save that raises returns
\* nothing and leaves no complete artifact; with the folder missing or empty
\* no index is returned, nothing is written and the path stays empty. The
\* path changes only in an evaluation, so the next one finds what this one left.
C10_LifecycleUnlessBuildRaises ==
    store_trace # <<>> =>
        LET t == store_trace[1] IN
        /\ faiss_index = t.out.index_path
        /\ t.pre # "absent" =>
             /\ t.out.loaded /\ ~t.out.built
             /\ ~t.out.read_folder /\ ~t.out.wrote /\ t.out.index_path = t.pre
             /\ t.pre \in DocumentSets => (t.out.ret = t.pre /\ ~t.out.raised)
        /\ (t.pre = "absent" /\ t.folder \in DocumentSets) =>
             /\ ~t.out.loaded /\ t.out.read_folder
             /\ IF t.out.raised
                THEN t.out.ret = None /\ t.out.index_path \notin DocumentSets
                ELSE /\ t.out.built /\ t.out.wrote
                     /\ t.out.ret = t.folder /\ t.out.index_path = t.folder
        /\ (t.pre = "absent" /\ t.folder \in {"missing", "empty"}) =>
             /\ t.out.ret = None /\ ~t.out.raised /\ ~t.out.loaded
             /\ ~t.out.wrote /\ t.out.index_path = "absent"

\* C10 witness: an evaluation loaded the index that an earlier process had
\* built from the folder and saved
C10_Witness ==
    /\ store_trace # <<>>
    /\ store_trace[1].pre = "docsB"
    /\ store_trace[1].out.loaded
    /\ store_trace[1].out.ret = "docsB"
    /\ store_calls = 1

(***************************************************************************)
(* C11: shape of the conversation                                          *)
(***************************************************************************)
\* a conversation that starts with the seeded greeting, alternates
\* assistant / user and ends with an assistant message
WellShaped(msgs) ==
    /\ Len(msgs) >= 1
    /\ msgs[1] = Greeting
    /\ \A i \in 1..Len(msgs) :
         msgs[i].role = IF i % 2 = 1 THEN "assistant" ELSE "user"
    /\ msgs[Len(msgs)].role = "assistant"

\* the messages a step leaves are the earlier ones, unchanged, plus appended ones
OnlyAppends == IsPrefix(messages, messages')

\* C11: between turns the conversation, once it exists in the session, is
\* non-empty, begins with the seeded greeting, strictly alternates assistant and
\* user and ends with an assistant message, and it exists whenever the chat
\* input is shown or the history was cleared; every step that handles a prompt
\* (shortlist or standard, whether its model calls returned or raised) runs to
\* its end and appends exactly two messages, the user's text and then one
\* assistant reply; and no step other than a history clear or the start of a
\* new session removes or rewrites an earlier message.
C11_ConversationShape ==
    /\ []( /\ (messages # NotInSession => WellShaped(messages))
           /\ (InputShown \/ run.op = "clear" => messages # NotInSession) )
    /\ [][ /\ (run'.op \in {"shortlist", "standard"} =>
                 /\ ~run'.escaped
                 /\ OnlyAppends
                 /\ Len(messages') = Len(messages) + 2
                 /\ \E p \in Prompts :
                      messages'[Len(messages) + 1] = HumanMessage(p)
                 /\ messages'[Len(messages) + 2].role = "assistant"
                 /\ run'.before = Len(messages))
           /\ (run'.op \notin {"clear", "new_session", "restart"} => OnlyAppends)
         ]_vars

\* C11 witness: a shortlist turn that succeeded followed by a standard turn
\* whose model call raised; the five messages are greeting, user, shortlist,
\* user, apology
C11_Witness ==
    /\ run.op = "standard"
    /\ run.llm_raised = <<TRUE>>
    /\ Len(messages) = 5
    /\ messages[3] = AIMessage(ShortlistText)
    /\ messages[4].role = "user"
    /\ messages[5] = AIMessage(MainSorry \o InvokeError)
    /\ WellShaped(messages)
====
